---------------------------- MODULE Spec2Model ----------------------------
(***************************************************************************)
(* Model of plugins/lualib_bundle_fixer.js, the TypeScriptToLua plugin     *)
(* whose beforeEmit hook edits the list of emitted files: it removes the   *)
(* lualib bundle when config.generate_lualib_bundle is false, and renames  *)
(* the bundle and rewrites the files that require it when                 *)
(* config.custom_lualib_bundle_name is set.                                *)
(*                                                                         *)
(* Text is a sequence of chunks (strings that never overlap), a path is a  *)
(* record [abs, segs] whose segments are texts, an optional value is a     *)
(* sequence of length 0 (undefined) or 1.  Paths follow node's POSIX path  *)
(* module.  Array indices are 0-based as in the source; element k of the   *)
(* JavaScript array is element k + 1 of the TLA+ sequence.                 *)
(***************************************************************************)
EXTENDS Integers, Sequences, FiniteSets, TLC

VARIABLES
    program,  \* the ts.Program handed to beforeEmit
    emitHost, \* the EmitHost handed to beforeEmit
    config,   \* the imported cc-ts-config.json
    outDir,   \* options.outDir: <<>> when undefined, else <<path>>
    result,   \* the EmitFile list beforeEmit edits in place
    pre,      \* result as it was when the last call of beforeEmit began
    err,      \* outcome of the last call: "none", "ok" or "AssertionError"
    calls,    \* number of calls of beforeEmit made so far
    pc,       \* the statement the running call is at, "idle" between calls
    scan,     \* findIndex: the index it tests next
    idx,      \* the constant idx
    nextIndex,\* for...of: the index the array iterator yields next
    tested,   \* per entry id, how often the findIndex callback ran on it
    visited,  \* per entry id, how often the loop body ran on it
    seen,     \* what another callback of the build last saw: <<>> or <<snapshot>>
    log       \* the calls that have ended: the list given, the list left, the error

stepVars == <<pc, scan, idx, nextIndex, tested, visited, seen, log>>
vars == <<program, emitHost, config, outDir, result, pre, err, calls,
          pc, scan, idx, nextIndex, tested, visited, seen, log>>

---------------------------------------------------------------------------
(* Bounds of the model. *)

MaxLen == 2      \* longest result list handed to beforeEmit
MaxCalls == 2    \* calls of beforeEmit on one result list
CountCap == 2    \* tested and visited stop counting here ("more than once")

---------------------------------------------------------------------------
(* Text. *)

RequireOpen == "local ____lualib = require(\""
RequireClose == "\")"
NL == "\n"
LualibBundle == "lualib_bundle"
DotLua == ".lua"
Slash == "/"
Dollar == "$"

Front(s) == SubSeq(s, 1, Len(s) - 1)
Last(s) == s[Len(s)]
Drop(s, n) == SubSeq(s, n + 1, Len(s))

\* the file name the plugin looks for
BundleBasename == <<LualibBundle, DotLua>>

\* the text the regular expression matches, anchored at the start of the code
LualibRequireLine == <<RequireOpen, LualibBundle, RequireClose, NL>>

\* the replacement template for a bundle name
RequireLineFor(name) == <<RequireOpen>> \o name \o <<RequireClose, NL>>

\* String.prototype.replace's expansion of a replacement string: $$ is a
\* dollar, $& the match, $` the text before it, $' the text after it; the
\* pattern has no capture group, so every other $ stands for itself.
RECURSIVE GetSubstitution(_, _, _, _)
GetSubstitution(repl, matched, before, after) ==
    IF repl = <<>> THEN <<>>
    ELSE IF Head(repl) = Dollar /\ Len(repl) >= 2 /\ repl[2] \in {Dollar, "&", "`", "'"}
    THEN (CASE repl[2] = Dollar -> <<Dollar>>
            [] repl[2] = "&" -> matched
            [] repl[2] = "`" -> before
            [] repl[2] = "'" -> after)
         \o GetSubstitution(Drop(repl, 2), matched, before, after)
    ELSE <<Head(repl)>> \o GetSubstitution(Tail(repl), matched, before, after)

\* /^local ____lualib = require\("lualib_bundle"\)\n/ has neither the m nor
\* the g flag: it matches at offset 0 of the string only.
RegexMatches(code) ==
    /\ Len(code) >= Len(LualibRequireLine)
    /\ SubSeq(code, 1, Len(LualibRequireLine)) = LualibRequireLine

\* ReplaceRequire with the ^ left out of the regular expression: the first
\* occurrence of the line is replaced, wherever it stands
ReplaceRequireUnanchored(code, name) ==
    LET len == Len(LualibRequireLine)
        hits == { i \in 1..Len(code) :
                    i + len - 1 <= Len(code) /\ SubSeq(code, i, i + len - 1) = LualibRequireLine }
    IN  IF hits = {} THEN code
        ELSE LET i == CHOOSE h \in hits : \A g \in hits : h <= g
                 before == SubSeq(code, 1, i - 1)
                 rest == Drop(code, i + len - 1)
             IN  before
                 \o GetSubstitution(RequireLineFor(name), LualibRequireLine, before, rest)
                 \o rest

ReplaceRequire(code, name) ==
    IF RegexMatches(code)
    THEN LET rest == Drop(code, Len(LualibRequireLine))
         IN  GetSubstitution(RequireLineFor(name), LualibRequireLine, <<>>, rest)
             \o rest
    ELSE code

---------------------------------------------------------------------------
(* Paths (node's path.posix). *)

Dot == <<".">>
DotDot == <<"..">>
Root == [abs |-> TRUE, segs |-> <<>>]
EmptyString == [abs |-> FALSE, segs |-> <<>>]
Cwd == [abs |-> TRUE, segs |-> << <<"proj">> >>]

\* normalisation of the segments of an absolute path
RECURSIVE NormalizeSegs(_, _)
NormalizeSegs(segs, acc) ==
    IF segs = <<>> THEN acc
    ELSE LET s == Head(segs)
         IN  IF s = Dot \/ s = <<>>
             THEN NormalizeSegs(Tail(segs), acc)
             ELSE IF s = DotDot
             THEN NormalizeSegs(Tail(segs), IF acc = <<>> THEN <<>> ELSE Front(acc))
             ELSE NormalizeSegs(Tail(segs), Append(acc, s))

\* the segments of a text, split at the separators
RECURSIVE SplitSegs(_, _)
SplitSegs(text, cur) ==
    IF text = <<>> THEN <<cur>>
    ELSE IF Head(text) = Slash
    THEN <<cur>> \o SplitSegs(Tail(text), <<>>)
    ELSE SplitSegs(Tail(text), Append(cur, Head(text)))

PathResolve(p) ==
    [abs |-> TRUE,
     segs |-> NormalizeSegs(IF p.abs THEN p.segs ELSE Cwd.segs \o p.segs, <<>>)]

\* of an absolute, normalised path
PathDirname(p) == IF p.segs = <<>> THEN Root ELSE [abs |-> TRUE, segs |-> Front(p.segs)]
PathBasename(p) == IF p.segs = <<>> THEN <<>> ELSE Last(p.segs)

\* path.join(dir, text) for an absolute dir
PathJoin(dir, text) ==
    [abs |-> TRUE,
     segs |-> NormalizeSegs(dir.segs \o (IF text = <<>> THEN <<>> ELSE SplitSegs(text, <<>>)), <<>>)]

---------------------------------------------------------------------------
(* JavaScript values. *)

\* a test for undefined in the place of the truthiness of the name
NameDefined(opt) == opt # <<>>

\* truthiness of an optional string: undefined and "" are falsy
PathTruthy(opt) == opt # <<>> /\ opt[1] # EmptyString
NameTruthy(opt) == opt # <<>> /\ opt[1] # <<>>

Min(a, b) == IF a < b THEN a ELSE b
Max(a, b) == IF a > b THEN a ELSE b

\* Splice with a negative start clamped to 0 instead of counted from the end
SpliceClampedStart(arr, start, deleteCount) ==
    LET len == Len(arr)
        actualStart == Min(Max(start, 0), len)
        actualDeleteCount == Min(Max(deleteCount, 0), len - actualStart)
    IN  SubSeq(arr, 1, actualStart) \o Drop(arr, actualStart + actualDeleteCount)

\* Splice with the delete count left out: everything from start on goes
SpliceToEnd(arr, start, deleteCount) ==
    LET len == Len(arr)
        actualStart == IF start < 0 THEN Max(len + start, 0) ELSE Min(start, len)
    IN  SubSeq(arr, 1, actualStart)

\* Array.prototype.splice(start, deleteCount) with no inserted items
Splice(arr, start, deleteCount) ==
    LET len == Len(arr)
        actualStart == IF start < 0 THEN Max(len + start, 0) ELSE Min(start, len)
        actualDeleteCount == Min(Max(deleteCount, 0), len - actualStart)
    IN  SubSeq(arr, 1, actualStart) \o Drop(arr, actualStart + actualDeleteCount)

---------------------------------------------------------------------------
(* beforeEmit. *)

DeleteCount == 1

\* IsBundleFile without the comparison of the directory
IsBundleFileAnyDir(file, out_dir) ==
    PathBasename(PathResolve(file.outputPath)) = <<LualibBundle, DotLua>>

\* the test both steps make on an entry
IsBundleFile(file, out_dir) ==
    LET file_path == PathResolve(file.outputPath)
    IN  /\ PathDirname(file_path) = out_dir
        /\ PathBasename(file_path) = BundleBasename

\* FindIndex counting from 1: the index after the one that passes
FindIndexOneBased(res, out_dir) ==
    IF \E k \in 1..Len(res) : IsBundleFile(res[k], out_dir)
    THEN CHOOSE k \in 1..Len(res) :
            /\ IsBundleFile(res[k], out_dir)
            /\ \A j \in 1..(k - 1) : ~IsBundleFile(res[j], out_dir)
    ELSE -1

\* findLastIndex in the place of findIndex
FindLastIndex(res, out_dir) ==
    IF \E k \in 1..Len(res) : IsBundleFile(res[k], out_dir)
    THEN (CHOOSE k \in 1..Len(res) :
            /\ IsBundleFile(res[k], out_dir)
            /\ \A j \in (k + 1)..Len(res) : ~IsBundleFile(res[j], out_dir)) - 1
    ELSE -1

\* result.findIndex(...): the first index whose entry passes, or -1
FindIndex(res, out_dir) ==
    IF \E k \in 1..Len(res) : IsBundleFile(res[k], out_dir)
    THEN (CHOOSE k \in 1..Len(res) :
            /\ IsBundleFile(res[k], out_dir)
            /\ \A j \in 1..(k - 1) : ~IsBundleFile(res[j], out_dir)) - 1
    ELSE -1

\* RemoveStep with the negation of the flag left out
RemoveStepInverted(cfg, od, res) ==
    IF cfg.generate_lualib_bundle
    THEN IF ~PathTruthy(od)
         THEN [thrown |-> TRUE, result |-> res]
         ELSE [thrown |-> FALSE,
               result |-> Splice(res, FindIndex(res, PathResolve(od[1])), DeleteCount)]
    ELSE [thrown |-> FALSE, result |-> res]

\* RemoveStep without its assertion: path.resolve throws on undefined and
\* resolves "" to the working directory
RemoveStepNoAssert(cfg, od, res) ==
    IF ~cfg.generate_lualib_bundle
    THEN IF od = <<>>
         THEN [thrown |-> TRUE, result |-> res]
         ELSE [thrown |-> FALSE,
               result |-> Splice(res, FindIndex(res, PathResolve(od[1])), DeleteCount)]
    ELSE [thrown |-> FALSE, result |-> res]

\* the first if statement; thrown is TRUE when the assertion failed
RemoveStep(cfg, od, res) ==
    IF ~cfg.generate_lualib_bundle
    THEN IF ~PathTruthy(od)
         THEN [thrown |-> TRUE, result |-> res]
         ELSE LET out_dir == PathResolve(od[1])
              IN  [thrown |-> FALSE,
                   result |-> Splice(res, FindIndex(res, out_dir), DeleteCount)]
    ELSE [thrown |-> FALSE, result |-> res]

\* RenameOrRewrite with the ".lua" left off the new name
RenameOrRewriteNoExtension(file, out_dir, name) ==
    IF IsBundleFile(file, out_dir)
    THEN [file EXCEPT !.outputPath = PathJoin(out_dir, name)]
    ELSE [file EXCEPT !.code = ReplaceRequire(file.code, name)]

\* RenameOrRewrite with the replace made on every file, before the test
RenameOrRewriteEveryCode(file, out_dir, name) ==
    IF IsBundleFile(file, out_dir)
    THEN [file EXCEPT !.outputPath = PathJoin(out_dir, name \o <<DotLua>>),
                      !.code = ReplaceRequire(file.code, name)]
    ELSE [file EXCEPT !.code = ReplaceRequire(file.code, name)]

\* RenameOrRewrite with the string that replace returns thrown away
RenameOrRewriteDiscarded(file, out_dir, name) ==
    IF IsBundleFile(file, out_dir)
    THEN [file EXCEPT !.outputPath = PathJoin(out_dir, name \o <<DotLua>>)]
    ELSE file

\* the body of the for loop, for one entry
RenameOrRewrite(file, out_dir, name) ==
    IF IsBundleFile(file, out_dir)
    THEN [file EXCEPT !.outputPath = PathJoin(out_dir, name \o <<DotLua>>)]
    ELSE [file EXCEPT !.code = ReplaceRequire(file.code, name)]

\* RenameStep with the assertion made before the test of the name
RenameStepAssertFirst(cfg, od, res) ==
    IF ~PathTruthy(od)
    THEN [thrown |-> TRUE, result |-> res]
    ELSE IF NameTruthy(cfg.custom_lualib_bundle_name)
    THEN [thrown |-> FALSE,
          result |-> [k \in 1..Len(res) |->
                        RenameOrRewrite(res[k], PathResolve(od[1]),
                                        cfg.custom_lualib_bundle_name[1])]]
    ELSE [thrown |-> FALSE, result |-> res]

\* the second if statement
RenameStep(cfg, od, res) ==
    IF NameTruthy(cfg.custom_lualib_bundle_name)
    THEN IF ~PathTruthy(od)
         THEN [thrown |-> TRUE, result |-> res]
         ELSE LET out_dir == PathResolve(od[1])
                  name == cfg.custom_lualib_bundle_name[1]
              IN  [thrown |-> FALSE,
                   result |-> [k \in 1..Len(res) |-> RenameOrRewrite(res[k], out_dir, name)]]
    ELSE [thrown |-> FALSE, result |-> res]

\* the whole hook: what result holds when it returns or throws
BeforeEmitOutcome(cfg, od, res) ==
    LET first == RemoveStep(cfg, od, res)
    IN  IF first.thrown THEN first ELSE RenameStep(cfg, od, first.result)

---------------------------------------------------------------------------
(* Inputs. *)

Seg(name) == <<name>>
File(name) == <<name, DotLua>>
Rel(segs) == [abs |-> FALSE, segs |-> segs]
Abs(segs) == [abs |-> TRUE, segs |-> segs]

OutputPaths ==
    { Rel(<<Seg("out"), File(LualibBundle)>>),
      Abs(<<Seg("proj"), Seg("out"), File(LualibBundle)>>),
      Rel(<<Seg("out"), Seg("sub"), File(LualibBundle)>>),
      Rel(<<Seg("out"), File("foo")>>) }

Codes ==
    { LualibRequireLine \o <<"body">>,
      <<"-- header", NL>> \o LualibRequireLine \o <<"body">>,
      LualibRequireLine \o LualibRequireLine,
      <<"body">> }

OutDirs ==
    { <<>>,
      <<EmptyString>>,
      <<Rel(<<Seg("out")>>)>>,
      <<Abs(<<Seg("proj"), Seg("out")>>)>>,
      <<Rel(<<Seg("out"), Seg("sub")>>)>> }

BundleNames ==
    { <<>>,
      << <<>> >>,
      << <<"foo">> >>,
      << <<LualibBundle>> >>,
      << <<Dollar, "&">> >> }

Configs ==
    [generate_lualib_bundle : BOOLEAN, custom_lualib_bundle_name : BundleNames]

\* the lists of at most MaxLen entries; an entry's id is its place in the
\* list the transpiler produced, and sourceMap stands for the fields of an
\* EmitFile other than outputPath and code
ListsOver(paths, codes) ==
    UNION { { [j \in 1..n |-> [id |-> j, outputPath |-> ps[j], code |-> cs[j],
                             sourceMap |-> <<"map", ps[j]>>]] :
                ps \in [1..n -> paths], cs \in [1..n -> codes] } :
            n \in 0..MaxLen }

ResultLists == ListsOver(OutputPaths, Codes)

---------------------------------------------------------------------------
(* The state machine. *)

\* no call is running; program and emitHost are the build's objects
NotRunning ==
    /\ pc = "idle"
    /\ scan = 0
    /\ idx = -1
    /\ nextIndex = 0
    /\ tested = [id \in 1..MaxLen |-> 0]
    /\ visited = [id \in 1..MaxLen |-> 0]
    /\ seen = <<>>
    /\ log = {}
    /\ program = "Program"
    /\ emitHost = "EmitHost"

Init ==
    /\ config \in Configs
    /\ outDir \in OutDirs
    /\ result \in ResultLists
    /\ pre = result
    /\ err = "none"
    /\ calls = 0
    /\ NotRunning

\* one call beforeEmit(program, options, emitHost, result)
BeforeEmit ==
    /\ calls < MaxCalls
    /\ LET out == BeforeEmitOutcome(config, outDir, result)
       IN  /\ result' = out.result
           /\ err' = IF out.thrown THEN "AssertionError" ELSE "ok"
    /\ pre' = result
    /\ calls' = calls + 1
    /\ UNCHANGED <<program, emitHost, config, outDir>>
    /\ UNCHANGED stepVars

Next == BeforeEmit

Spec == Init /\ [][Next]_vars

---------------------------------------------------------------------------
(* beforeEmit statement by statement: one action per statement, one step   *)
(* of findIndex per tested entry, one step of the for loop per entry.      *)

StepOutputPaths ==
    { Rel(<<Seg("out"), File(LualibBundle)>>),
      Rel(<<Seg("out"), File("foo")>>) }

StepCodes == { LualibRequireLine \o <<"body">>, <<"body">> }

StepOutDirs == { <<>>, <<Rel(<<Seg("out")>>)>> }

StepConfigs ==
    [generate_lualib_bundle : BOOLEAN,
     custom_lualib_bundle_name : { <<>>, << <<"foo">> >> }]

InitSteps ==
    /\ config \in StepConfigs
    /\ outDir \in StepOutDirs
    /\ result \in ListsOver(StepOutputPaths, StepCodes)
    /\ pre = result
    /\ err = "none"
    /\ calls = 0
    /\ NotRunning

Count(c) == Min(c + 1, CountCap)

\* the statements at which beforeEmit hands control back before it is done:
\* the function is not async and holds no await and no yield
SuspensionPointsAfterRemoval == {"rename_if"}
SuspensionPoints == {}

\* the for...of loop never goes back to an entry
IteratorRetry(n) == n
IteratorAdvance(n) == n + 1

\* findIndex and for...of start at index 0 in every call: neither keeps a
\* position from the call before
StalePosition(last) == last
StartPosition(last) == 0

\* the call begins: the build hands over the list it holds, or once more a
\* list equal to one it handed over before
Enter ==
    /\ pc = "idle"
    /\ calls < MaxCalls
    /\ \E given \in {result} \cup { l.given : l \in log } :
          result' = given /\ pre' = given
    /\ pc' = "remove_if"
    /\ err' = "none"
    /\ calls' = calls + 1
    /\ idx' = -1
    /\ tested' = [id \in 1..MaxLen |-> 0]
    /\ visited' = [id \in 1..MaxLen |-> 0]
    /\ UNCHANGED <<program, emitHost, config, outDir, scan, nextIndex, seen, log>>

\* the call ends, by a return ("ok") or by a throw
Leave(how, left) ==
    /\ pc' = "idle"
    /\ err' = how
    /\ log' = log \cup { [given |-> pre, left |-> left, err |-> how] }

\* if (!config.generate_lualib_bundle)
RemoveIf ==
    /\ pc = "remove_if"
    /\ pc' = IF ~config.generate_lualib_bundle THEN "remove_assert" ELSE "rename_if"
    /\ UNCHANGED <<program, emitHost, config, outDir, result, pre, err, calls,
                   scan, idx, nextIndex, tested, visited, seen, log>>

\* assert(options.outDir); const out_dir = ...
RemoveAssert ==
    /\ pc = "remove_assert"
    /\ IF ~PathTruthy(outDir)
       THEN Leave("AssertionError", result) /\ scan' = scan
       ELSE pc' = "find" /\ scan' = StartPosition(scan) /\ UNCHANGED <<err, log>>
    /\ UNCHANGED <<program, emitHost, config, outDir, result, pre, calls,
                   idx, nextIndex, tested, visited, seen>>

\* one round of findIndex: the callback on entry scan, or the end of the list
FindIndexStep ==
    /\ pc = "find"
    /\ IF scan < Len(result)
       THEN LET value == result[scan + 1]
            IN  /\ tested' = [tested EXCEPT ![value.id] = Count(@)]
                /\ IF IsBundleFile(value, PathResolve(outDir[1]))
                   THEN idx' = scan /\ scan' = scan /\ pc' = "splice"
                   ELSE idx' = idx /\ scan' = scan + 1 /\ pc' = pc
       ELSE /\ idx' = -1
            /\ pc' = "splice"
            /\ UNCHANGED <<scan, tested>>
    /\ UNCHANGED <<program, emitHost, config, outDir, result, pre, err, calls, nextIndex, visited, seen, log>>

\* result.splice(idx, 1)
SpliceStep ==
    /\ pc = "splice"
    /\ result' = Splice(result, idx, DeleteCount)
    /\ pc' = "rename_if"
    /\ UNCHANGED <<program, emitHost, config, outDir, pre, err, calls,
                   scan, idx, nextIndex, tested, visited, seen, log>>

\* if (config.custom_lualib_bundle_name), or the return when it is not set
RenameIf ==
    /\ pc = "rename_if"
    /\ IF NameTruthy(config.custom_lualib_bundle_name)
       THEN pc' = "rename_assert" /\ UNCHANGED <<err, log>>
       ELSE Leave("ok", result)
    /\ UNCHANGED <<program, emitHost, config, outDir, result, pre, calls,
                   scan, idx, nextIndex, tested, visited, seen>>

\* assert(options.outDir); const out_dir = ...
RenameAssert ==
    /\ pc = "rename_assert"
    /\ IF ~PathTruthy(outDir)
       THEN Leave("AssertionError", result) /\ nextIndex' = nextIndex
       ELSE pc' = "for" /\ nextIndex' = StartPosition(nextIndex) /\ UNCHANGED <<err, log>>
    /\ UNCHANGED <<program, emitHost, config, outDir, result, pre, calls,
                   scan, idx, tested, visited, seen>>

\* one round of for (const file of result): the body on the next entry, or
\* the end of the loop and the return
ForStep ==
    /\ pc = "for"
    /\ IF nextIndex < Len(result)
       THEN LET file == result[nextIndex + 1]
            IN  /\ result' = [result EXCEPT ![nextIndex + 1] =
                                RenameOrRewrite(file, PathResolve(outDir[1]),
                                                config.custom_lualib_bundle_name[1])]
                /\ visited' = [visited EXCEPT ![file.id] = Count(@)]
                /\ nextIndex' = IteratorAdvance(nextIndex)
                /\ UNCHANGED <<pc, err, log>>
       ELSE /\ Leave("ok", result)
            /\ UNCHANGED <<result, visited, nextIndex>>
    /\ UNCHANGED <<program, emitHost, config, outDir, pre, calls, scan, idx, tested, seen>>

\* another callback of the build gets to run: it looks at result and may
\* edit it (here: drop the last entry), which makes a new list for later calls
OtherCallback ==
    /\ pc = "idle" \/ pc \in SuspensionPoints
    /\ seen' = << [result |-> result, from |-> pre] >>
    /\ \E edit \in BOOLEAN :
          IF edit /\ result # <<>>
          THEN result' = Front(result) /\ pre' = Front(result) /\ err' = "none"
          ELSE UNCHANGED <<result, pre, err>>
    /\ UNCHANGED <<program, emitHost, config, outDir, calls, pc, scan, idx, nextIndex, tested, visited, log>>

\* the statements of the running call
Run ==
    \/ RemoveIf
    \/ RemoveAssert
    \/ FindIndexStep
    \/ SpliceStep
    \/ RenameIf
    \/ RenameAssert
    \/ ForStep

NextSteps == Enter \/ Run \/ OtherCallback

\* a call that has begun runs on: nothing in it waits for anything
SpecSteps == InitSteps /\ [][NextSteps]_vars /\ WF_vars(Run)

---------------------------------------------------------------------------
(* Vocabulary of the properties. *)

\* a call of beforeEmit has been made; pre and result are its two ends
Called == calls > 0
Returned == Called /\ err = "ok"

OutDirPresent == PathTruthy(outDir)
NameSet == NameTruthy(config.custom_lualib_bundle_name)
N == config.custom_lualib_bundle_name[1]

\* the entry's output path resolves to <outDir>/lualib_bundle.lua
AtBundlePath(e) ==
    /\ OutDirPresent
    /\ PathResolve(e.outputPath).segs = PathResolve(outDir[1]).segs \o <<BundleBasename>>

BundlesIn(res) == { k \in 1..Len(res) : AtBundlePath(res[k]) }
Ids(res) == [k \in 1..Len(res) |-> res[k].id]

\* the entry as it was when the call began
Before(e) == CHOOSE p \in { pre[k] : k \in 1..Len(pre) } : p.id = e.id

\* the text holds the line `local ____lualib = require("lualib_bundle")`
ContainsRequireLine(code) ==
    \E i \in 1..Len(code) :
        /\ i + 2 <= Len(code)
        /\ SubSeq(code, i, i + 2) = <<RequireOpen, LualibBundle, RequireClose>>
        /\ (i = 1 \/ code[i - 1] = NL)
        /\ (i + 2 = Len(code) \/ code[i + 3] = NL)

BeginsWith(code, text) ==
    Len(code) >= Len(text) /\ SubSeq(code, 1, Len(text)) = text

\* the name has no character that replace or path.join treats specially
PlainName(name) == \A i \in 1..Len(name) : name[i] \notin {Dollar, Slash}

\* path.join adds no directory level for the name
NoSeparator(name) == \A i \in 1..Len(name) : name[i] # Slash

---------------------------------------------------------------------------
(* C1 *)

\* C1 as stated: with generate_lualib_bundle false, whenever the list held at
\* least one entry at <outDir>/lualib_bundle.lua, no entry of the list is at
\* that path after beforeEmit.
C1_NoBundleLeft ==
    (Returned /\ ~config.generate_lualib_bundle /\ BundlesIn(pre) # {})
        => BundlesIn(result) = {}

\* C1 amended: with generate_lualib_bundle false, whenever the list held
\* exactly one entry at <outDir>/lualib_bundle.lua, no entry of the list is
\* at that path after beforeEmit, and every other entry is still there.
C1_SingleBundleRemoved ==
    (Returned /\ ~config.generate_lualib_bundle /\ Cardinality(BundlesIn(pre)) = 1)
        => /\ BundlesIn(result) = {}
           /\ { result[k].id : k \in 1..Len(result) }
                = { pre[k].id : k \in 1..Len(pre) } \ { pre[k].id : k \in BundlesIn(pre) }

C1_Witness ==
    /\ Returned /\ ~config.generate_lualib_bundle
    /\ Len(pre) = 2 /\ BundlesIn(pre) = {2}
    /\ Len(result) = 1 /\ result[1].id = pre[1].id

---------------------------------------------------------------------------
(* C2 *)

\* C2 as stated: with custom_lualib_bundle_name a non-empty name, after
\* beforeEmit no entry other than the bundle still contains the line
\* `local ____lualib = require("lualib_bundle")`, wherever it stood (taken
\* for the names N that hold no `$` and differ from lualib_bundle).
C2_NoRequireLineLeft ==
    (Returned /\ NameSet /\ PlainName(N) /\ N # <<LualibBundle>>)
        => \A k \in 1..Len(result) :
              ~AtBundlePath(Before(result[k])) => ~ContainsRequireLine(result[k].code)

\* C2 amended: with custom_lualib_bundle_name a non-empty name N that holds
\* no `$` and is not lualib_bundle, after beforeEmit no entry other than the
\* bundle begins with the line `local ____lualib = require("lualib_bundle")`:
\* an entry that began with it begins with `local ____lualib = require("N")`
\* instead.  (The line standing after other text is not rewritten.)
C2_LeadingRequireRewritten ==
    (Returned /\ NameSet /\ PlainName(N) /\ N # <<LualibBundle>>)
        => \A k \in 1..Len(result) :
              ~AtBundlePath(Before(result[k]))
                 => /\ ~BeginsWith(result[k].code, LualibRequireLine)
                    /\ BeginsWith(Before(result[k]).code, LualibRequireLine)
                         => BeginsWith(result[k].code,
                                       <<RequireOpen>> \o N \o <<RequireClose, NL>>)

C2_Witness ==
    /\ Returned /\ NameSet /\ N = <<"foo">>
    /\ \E k \in 1..Len(result) :
          /\ ~AtBundlePath(Before(result[k]))
          /\ BeginsWith(Before(result[k]).code, LualibRequireLine)
          /\ BeginsWith(result[k].code, <<RequireOpen, "foo", RequireClose, NL>>)

---------------------------------------------------------------------------
(* C3 *)

\* C3: with custom_lualib_bundle_name a non-empty name N, beforeEmit sets the
\* outputPath of every entry at <outDir>/lualib_bundle.lua to <outDir>/N.lua
\* and leaves every other outputPath as it was, a lualib_bundle.lua in another
\* directory included.
C3_RenameOnlyBundle ==
    (Returned /\ NameSet /\ NoSeparator(N))
        => \A k \in 1..Len(result) :
              LET was == Before(result[k])
              IN  IF AtBundlePath(was)
                  THEN result[k].outputPath
                         = [abs |-> TRUE,
                            segs |-> PathResolve(outDir[1]).segs \o <<N \o <<DotLua>>>>]
                  ELSE result[k].outputPath = was.outputPath

C3_Witness ==
    /\ Returned /\ NameSet /\ N = <<"foo">> /\ Len(result) = 2
    /\ AtBundlePath(pre[1])
    /\ result[1].outputPath.segs = <<Seg("proj"), Seg("out"), File("foo")>>
    /\ PathBasename(PathResolve(pre[2].outputPath)) = BundleBasename
    /\ ~AtBundlePath(pre[2])
    /\ result[2].outputPath = pre[2].outputPath

---------------------------------------------------------------------------
(* C4 *)

\* C4: with generate_lualib_bundle false, outDir present and a non-empty list
\* holding no entry at <outDir>/lualib_bundle.lua, beforeEmit raises no error
\* and removes exactly one entry, the last of the list.
C4_MissingBundleRemovesLast ==
    (Called /\ ~config.generate_lualib_bundle /\ OutDirPresent
       /\ pre # <<>> /\ BundlesIn(pre) = {})
        => /\ err = "ok"
           /\ Ids(result) = Ids(Front(pre))

C4_Witness ==
    /\ Called /\ ~config.generate_lualib_bundle /\ OutDirPresent
    /\ Len(pre) = 2 /\ BundlesIn(pre) = {}
    /\ PathBasename(PathResolve(pre[1].outputPath)) = BundleBasename
    /\ err = "ok" /\ Len(result) = 1 /\ result[1].id = pre[1].id

---------------------------------------------------------------------------
(* C5 *)

\* C5: beforeEmit never adds an entry and removes at most one; with
\* generate_lualib_bundle true the length is unchanged, with it false and
\* outDir present a non-empty list loses exactly one entry and an empty list
\* stays empty.
C5_LengthChange ==
    Called
        => /\ Len(result) <= Len(pre)
           /\ Len(pre) - Len(result) <= 1
           /\ config.generate_lualib_bundle => Len(result) = Len(pre)
           /\ (~config.generate_lualib_bundle /\ OutDirPresent)
                 => Len(result) = (IF pre = <<>> THEN 0 ELSE Len(pre) - 1)

C5_Witness ==
    /\ Called /\ ~config.generate_lualib_bundle /\ OutDirPresent
    /\ Len(pre) = 2 /\ BundlesIn(pre) = {1} /\ Len(result) = 1

---------------------------------------------------------------------------
(* C6 *)

\* C6: with generate_lualib_bundle true and no custom_lualib_bundle_name,
\* beforeEmit leaves result exactly as it was and raises no error, also when
\* options.outDir is absent.
C6_NothingToDo ==
    (Called /\ config.generate_lualib_bundle /\ config.custom_lualib_bundle_name = <<>>)
        => result = pre /\ err = "ok"

C6_Witness ==
    /\ Called /\ config.generate_lualib_bundle /\ config.custom_lualib_bundle_name = <<>>
    /\ outDir = <<>> /\ Len(pre) = 2
    /\ BeginsWith(pre[1].code, LualibRequireLine)
    /\ result = pre /\ err = "ok"

---------------------------------------------------------------------------
(* C7 *)

\* C7: when beforeEmit has work to do (generate_lualib_bundle false or a
\* non-empty custom_lualib_bundle_name) and options.outDir is absent, the call
\* fails with an assertion error and result is exactly as it was; no call at
\* all ends in an assertion error with result edited.
C7_AssertBeforeAnyEdit ==
    /\ (Called /\ (~config.generate_lualib_bundle \/ NameSet) /\ ~OutDirPresent)
          => (err = "AssertionError" /\ result = pre)
    /\ (Called /\ err = "AssertionError") => result = pre

C7_Witness ==
    /\ Called /\ ~config.generate_lualib_bundle /\ NameSet /\ outDir = <<EmptyString>>
    /\ Len(pre) = 2 /\ err = "AssertionError" /\ result = pre

---------------------------------------------------------------------------
(* C8 *)

\* C8: beforeEmit keeps no state between invocations: two invocations under
\* the same configuration and outDir that were given equal lists ended the
\* same way with equal lists, whatever invocations ran before them.
C8_NoStateBetweenCalls ==
    \A a \in log : \A b \in log :
        a.given = b.given => (a.left = b.left /\ a.err = b.err)

C8_Witness ==
    /\ calls = 2 /\ pc = "idle" /\ Cardinality(log) = 1
    /\ ~config.generate_lualib_bundle /\ NameSet
    /\ \E a \in log :
          /\ a.err = "ok" /\ Len(a.given) = 2 /\ Len(a.left) = 1
          /\ AtBundlePath(a.given[1])
          /\ BeginsWith(a.given[2].code, LualibRequireLine)
          /\ BeginsWith(a.left[1].code, <<RequireOpen, "foo", RequireClose, NL>>)

---------------------------------------------------------------------------
(* C9 *)

IdsOf(res) == { res[j].id : j \in 1..Len(res) }
Finished == pc = "idle" /\ Called /\ err = "ok"

\* the removal step ran the test at most once per entry, on the entries up to
\* the first bundle; the loop ran its body exactly once per entry left
SinglePass ==
    /\ \A id \in 1..MaxLen : tested[id] <= 1 /\ visited[id] <= 1
    /\ (Finished /\ ~config.generate_lualib_bundle)
          => \A j \in 1..Len(pre) :
                tested[pre[j].id]
                  = (IF \E m \in 1..(j - 1) : AtBundlePath(pre[m]) THEN 0 ELSE 1)
    /\ (Finished /\ NameSet)
          => \A id \in 1..MaxLen : visited[id] = (IF id \in IdsOf(result) THEN 1 ELSE 0)

\* C9: beforeEmit terminates on every finite list; the removal step scans the
\* list once and the rename/rewrite step visits each remaining entry exactly
\* once, with no retry.
C9_SinglePassTerminates ==
    /\ []SinglePass
    /\ (pc # "idle") ~> (pc = "idle")

C9_Witness ==
    /\ Finished /\ ~config.generate_lualib_bundle /\ NameSet
    /\ Len(pre) = 2 /\ BundlesIn(pre) = {2} /\ Len(result) = 1
    /\ tested[pre[1].id] = 1 /\ tested[pre[2].id] = 1
    /\ visited[pre[1].id] = 1 /\ visited[pre[2].id] = 0

---------------------------------------------------------------------------
(* C10 *)

\* C10: beforeEmit runs as one uninterrupted step: whatever another callback
\* of the build sees of result is the list a call was given or the list the
\* whole call leaves, never the list between the removal and the rewrite; and
\* no edit by another callback gets in between, so a call that has ended left
\* what the whole hook computes from the list it was given.
C10_NoIntermediateState ==
    /\ seen # <<>>
          => seen[1].result \in
                { seen[1].from, BeforeEmitOutcome(config, outDir, seen[1].from).result }
    /\ (pc = "idle" /\ Called /\ err # "none")
          => /\ result = BeforeEmitOutcome(config, outDir, pre).result
             /\ (err = "AssertionError") = BeforeEmitOutcome(config, outDir, pre).thrown

C10_Witness ==
    /\ seen # <<>> /\ pc = "idle" /\ err = "ok"
    /\ ~config.generate_lualib_bundle /\ NameSet
    /\ Len(seen[1].from) = 2 /\ Len(seen[1].result) = 1
    /\ BeginsWith(seen[1].from[2].code, LualibRequireLine)
    /\ seen[1].result[1].id = 2
    /\ BeginsWith(seen[1].result[1].code, <<RequireOpen, "foo", RequireClose, NL>>)

---------------------------------------------------------------------------
(* C11 *)

\* the entries of result that were not at the bundle path when the call began
Others == { j \in 1..Len(result) : ~AtBundlePath(Before(result[j])) }

\* the require line that names N, as the template literal spells it
RequireLineNaming(name) == <<RequireOpen>> \o name \o <<RequireClose, NL>>

\* C11: with custom_lualib_bundle_name set to N, the code of a non-bundle
\* entry is rewritten if and only if it begins with the line
\* `local ____lualib = require("lualib_bundle")` and a newline; then only this
\* first line is replaced, by the same line naming N, and the rest of the code
\* is as it was; the line standing after other text, or a second time, stays.
C11_OnlyLeadingLineRewritten ==
    (Returned /\ NameSet)
        => \A j \in Others :
              LET was == Before(result[j]).code
              IN  result[j].code
                    = (IF BeginsWith(was, LualibRequireLine)
                       THEN RequireLineNaming(N) \o Drop(was, Len(LualibRequireLine))
                       ELSE was)

---------------------------------------------------------------------------
(* C12 *)

\* C12: the removal runs before the rename: with generate_lualib_bundle false,
\* custom_lualib_bundle_name N and exactly one entry at
\* <outDir>/lualib_bundle.lua, after beforeEmit no entry is at that path, no
\* entry was renamed to <outDir>/N.lua, and every surviving entry whose code
\* began with the lualib require line requires N.
C12_RemovedNotRenamed ==
    (Returned /\ ~config.generate_lualib_bundle /\ NameSet
       /\ Cardinality(BundlesIn(pre)) = 1)
        => /\ BundlesIn(result) = {}
           /\ \A j \in 1..Len(result) :
                 /\ result[j].outputPath = Before(result[j]).outputPath
                 /\ BeginsWith(Before(result[j]).code, LualibRequireLine)
                      => BeginsWith(result[j].code, RequireLineNaming(N))

---------------------------------------------------------------------------
(* C20 *)

\* C20: for every non-empty custom_lualib_bundle_name N, the first line of a
\* rewritten file is exactly `local ____lualib = require("N")`, N verbatim,
\* also when N holds `$&` or `$$`.
C20_NameInsertedVerbatim ==
    (Returned /\ NameSet)
        => \A j \in Others :
              BeginsWith(Before(result[j]).code, LualibRequireLine)
                 => BeginsWith(result[j].code, RequireLineNaming(N))

---------------------------------------------------------------------------
(* C13 *)

\* the entry's output path resolves to <outDir>/N.lua
AtNamedPath(e) ==
    /\ OutDirPresent
    /\ PathResolve(e.outputPath).segs = PathResolve(outDir[1]).segs \o <<N \o <<DotLua>>>>

\* C13: rename and rewrite stay consistent: with generate_lualib_bundle true,
\* custom_lualib_bundle_name N and an entry at <outDir>/lualib_bundle.lua,
\* after beforeEmit every entry whose code begins with
\* `local ____lualib = require("N")` has an entry at <outDir>/N.lua beside it.
C13_RequireHasRenamedBundle ==
    (Returned /\ config.generate_lualib_bundle /\ NameSet /\ BundlesIn(pre) # {})
        => \A j \in 1..Len(result) :
              BeginsWith(result[j].code, RequireLineNaming(N))
                 => \E m \in 1..Len(result) : AtNamedPath(result[m])

C13_Witness ==
    /\ Returned /\ config.generate_lualib_bundle /\ NameSet /\ N = <<"foo">>
    /\ Len(pre) = 2 /\ BundlesIn(pre) = {1}
    /\ PathBasename(PathResolve(pre[2].outputPath)) = BundleBasename
    /\ BeginsWith(pre[2].code, LualibRequireLine)
    /\ BeginsWith(result[2].code, <<RequireOpen, "foo", RequireClose, NL>>)
    /\ AtNamedPath(result[1]) /\ ~AtNamedPath(result[2])

---------------------------------------------------------------------------
(* C14 *)

DistinctPaths(res) ==
    \A a \in 1..Len(res) : \A b \in 1..Len(res) :
        a # b => PathResolve(res[a].outputPath) # PathResolve(res[b].outputPath)

\* C14: beforeEmit preserves the uniqueness of output paths: if the resolved
\* output paths of result are pairwise distinct before the call they are
\* pairwise distinct after it, for every N, also when result already holds an
\* entry at <outDir>/N.lua.
C14_PathsStayDistinct ==
    (Returned /\ DistinctPaths(pre)) => DistinctPaths(result)

---------------------------------------------------------------------------
(* C15 *)

RECURSIVE IsSubsequence(_, _)
IsSubsequence(a, b) ==
    IF a = <<>> THEN TRUE
    ELSE IF b = <<>> THEN FALSE
    ELSE IF Head(a) = Head(b) THEN IsSubsequence(Tail(a), Tail(b))
    ELSE IsSubsequence(a, Tail(b))

\* C15: beforeEmit never reorders or replaces entries: under every
\* configuration the entries of result after the call are a subsequence of
\* the entries before it (the same objects in the same order), and when the
\* removed entry is the bundle every entry that is not a bundle survives.
C15_SubsequenceOfInput ==
    Called
        => /\ IsSubsequence(Ids(result), Ids(pre))
           /\ (Returned /\ ~config.generate_lualib_bundle /\ BundlesIn(pre) # {})
                 => \A j \in 1..Len(pre) :
                       ~AtBundlePath(pre[j]) => pre[j].id \in { result[m].id : m \in 1..Len(result) }

C15_Witness ==
    /\ Returned /\ ~config.generate_lualib_bundle /\ NameSet
    /\ Len(pre) = 2 /\ BundlesIn(pre) = {1}
    /\ Ids(result) = <<pre[2].id>>
    /\ result[1].code # pre[2].code

---------------------------------------------------------------------------
(* C17 *)

\* the entry is a lualib_bundle.lua in a directory below outDir
InSubdirectory(e) ==
    LET file_path == PathResolve(e.outputPath).segs
        out_dir == PathResolve(outDir[1]).segs
    IN  /\ Len(file_path) > Len(out_dir) + 1
        /\ SubSeq(file_path, 1, Len(out_dir)) = out_dir
        /\ Last(file_path) = BundleBasename

FirstBundle(res) == CHOOSE j \in BundlesIn(res) : \A m \in BundlesIn(res) : j <= m
Without(res, j) == SubSeq(res, 1, j - 1) \o SubSeq(res, j + 1, Len(res))

\* C17: with generate_lualib_bundle false and several entries at
\* <outDir>/lualib_bundle.lua, beforeEmit removes only the first of them in
\* list order; what is searched for is the resolved directory being exactly
\* the resolved outDir and the base name lualib_bundle.lua, so a
\* lualib_bundle.lua in a subdirectory of outDir is never the one found.
C17_FirstBundleRemoved ==
    /\ (Returned /\ ~config.generate_lualib_bundle /\ BundlesIn(pre) # {})
          => Ids(result) = Ids(Without(pre, FirstBundle(pre)))
    /\ (Returned /\ ~config.generate_lualib_bundle)
          => \A j \in 1..Len(pre) :
                InSubdirectory(pre[j]) => FindIndex(pre, PathResolve(outDir[1])) # j - 1

C17_Witness ==
    /\ Returned /\ ~config.generate_lualib_bundle
    /\ Len(pre) = 2 /\ BundlesIn(pre) = {1, 2}
    /\ pre[1].outputPath # pre[2].outputPath
    /\ Ids(result) = <<pre[2].id>>

\* a lualib_bundle.lua below outDir stands before the bundle and is passed over
C17_SubdirectoryWitness ==
    /\ Returned /\ ~config.generate_lualib_bundle
    /\ Len(pre) = 2 /\ InSubdirectory(pre[1]) /\ BundlesIn(pre) = {2}
    /\ Ids(result) = <<pre[1].id>>

---------------------------------------------------------------------------
(* C18 *)

\* what a call may have done to the entries it left in result
FrameOfEntries ==
    Called
        => \A j \in 1..Len(result) :
              LET was == Before(result[j])
              IN  /\ result[j].sourceMap = was.sourceMap
                  /\ AtBundlePath(was) => result[j].code = was.code
                  /\ ~AtBundlePath(was) => result[j].outputPath = was.outputPath
                  /\ ~NameSet => result[j] = was

\* C18: beforeEmit changes nothing but the membership of result, the
\* outputPath of bundle entries and the code of the other entries: a renamed
\* bundle keeps its code, another entry keeps its outputPath, no other field
\* of an entry is written, and program, options and emitHost are not modified.
C18_NothingElseWritten ==
    /\ []FrameOfEntries
    /\ [][/\ program' = program
          /\ emitHost' = emitHost
          /\ outDir' = outDir
          /\ config' = config]_vars

C18_Witness ==
    /\ Returned /\ config.generate_lualib_bundle /\ NameSet /\ N = <<"foo">>
    /\ Len(pre) = 2 /\ BundlesIn(pre) = {1}
    /\ BeginsWith(pre[1].code, LualibRequireLine) /\ BeginsWith(pre[2].code, LualibRequireLine)
    /\ result[1].outputPath # pre[1].outputPath /\ result[1].code = pre[1].code
    /\ result[2].outputPath = pre[2].outputPath /\ result[2].code # pre[2].code

---------------------------------------------------------------------------
(* C19 *)

\* C19: a custom_lualib_bundle_name that is the empty string behaves exactly
\* like an absent one: no entry is renamed, no code is rewritten, and the
\* second assertion on outDir is not evaluated.
C19_EmptyNameIsNoName ==
    (Called /\ config.custom_lualib_bundle_name = << <<>> >>)
        => LET absent == BeforeEmitOutcome(
                            [config EXCEPT !.custom_lualib_bundle_name = <<>>], outDir, pre)
           IN  /\ result = absent.result
               /\ (err = "AssertionError") = absent.thrown
               /\ \A j \in 1..Len(result) : result[j] = Before(result[j])
               /\ config.generate_lualib_bundle => err = "ok"

C19_Witness ==
    /\ Called /\ config.custom_lualib_bundle_name = << <<>> >>
    /\ config.generate_lualib_bundle /\ outDir = <<>>
    /\ Len(pre) = 2 /\ BeginsWith(pre[1].code, LualibRequireLine)
    /\ result = pre /\ err = "ok"

---------------------------------------------------------------------------
(* C16 *)

\* the call that ended was made on the list the call before it left
SecondPass == calls >= 2 /\ Returned

\* C16: with generate_lualib_bundle true beforeEmit is idempotent for every N
\* and every list: a second application to the list it produced changes no
\* outputPath and no code, the renamed bundle <outDir>/N.lua included.
C16_Idempotent ==
    (SecondPass /\ config.generate_lualib_bundle)
        => \A j \in 1..Len(result) :
              /\ result[j].outputPath = pre[j].outputPath
              /\ result[j].code = pre[j].code

\* C16 amended: with generate_lualib_bundle true and a name N of plain name
\* characters, a second application changes no outputPath, and changes the
\* code of exactly one kind of entry: the renamed bundle <outDir>/N.lua (N
\* other than lualib_bundle) whose code begins with the line
\* `local ____lualib = require("lualib_bundle")`; the second pass treats it as
\* an ordinary file and rewrites that line.
C16_IdempotentButForBundleCode ==
    (SecondPass /\ config.generate_lualib_bundle /\ NameSet /\ PlainName(N))
        => \A j \in 1..Len(result) :
              /\ result[j].outputPath = pre[j].outputPath
              /\ result[j].code # pre[j].code
                   <=> (/\ AtNamedPath(pre[j])
                        /\ N # <<LualibBundle>>
                        /\ BeginsWith(pre[j].code, LualibRequireLine))

C16_Witness ==
    /\ SecondPass /\ config.generate_lualib_bundle /\ NameSet /\ N = <<"foo">>
    /\ Len(pre) = 2
    /\ AtNamedPath(pre[1]) /\ BeginsWith(pre[1].code, LualibRequireLine)
    /\ BeginsWith(result[1].code, <<RequireOpen, "foo", RequireClose, NL>>)
    /\ BeginsWith(pre[2].code, <<RequireOpen, "foo", RequireClose, NL>>)
    /\ result[2] = pre[2]

=============================================================================
